---- MODULE Spec2Model ----
(***************************************************************************)
(* Model of p2p-core/src/peer_discovery.rs: the PeerDiscovery service.     *)
(* State: the is_running flag, the discovered_peers map, the broadcast     *)
(* channel behind peer_sender, the mDNS daemon's registration of the local *)
(* service, the callers of start(), stop(), get_peers() and                *)
(* discover_peers() with their position inside the call, and the tasks     *)
(* spawned by start_discovery().                                           *)
(***************************************************************************)
EXTENDS Integers, Sequences, FiniteSets, TLC

\* ---------------------------------------------------------------- bounds
MaxCalls == 4
MaxRegistryCalls == 2
MaxRegistryRaw == 2
MaxBusCalls == 2
MaxBusRaw == 1
MaxRestartCalls == 3
MaxRestartRaw == 2
MaxQueryCalls == 2
MaxQueryRaw == 1
MaxLagRaw == 102
MaxEngineCalls == 3
MaxEngineRaw == 1

\* config.discovery_timeout of the instance, in ticks
DiscoveryTimeout == 1

\* broadcast::channel(100)
ChannelCapacity == 100

Callers == {"c1", "c2"}
Subscribers == {"s1", "s2"}

\* ------------------------------------------------------------ data model
\* Option::None for a Peer
NoPeer == [name |-> "", ip |-> "", port |-> 0]

\* IpAddr::is_ipv4 on the addresses a ServiceInfo advertises
is_ipv4(addr) == addr \in {"10.0.0.5", "10.0.0.6"}

\* ServiceInfo records the daemon can resolve (fullname, addresses, port)
ServiceInfos ==
    { [fullname |-> "alice", addresses |-> {"fe80::1"}, port |-> 8080],
      [fullname |-> "alice", addresses |-> {"10.0.0.5", "fe80::1"}, port |-> 8080],
      [fullname |-> "alice", addresses |-> {"10.0.0.6"}, port |-> 9090],
      [fullname |-> "bob", addresses |-> {"10.0.0.5", "10.0.0.6"}, port |-> 8080] }

Names == {i.fullname : i \in ServiceInfos}

NoInfo(fullname) == [fullname |-> fullname, addresses |-> {}, port |-> 0]

\* mdns_sd::ServiceEvent values delivered by the browse receiver
ServiceEvents ==
    { [kind |-> "ServiceResolved", info |-> i] : i \in ServiceInfos }
      \cup { [kind |-> "ServiceRemoved", info |-> NoInfo(n)] : n \in Names }
      \cup { [kind |-> "SearchStarted", info |-> NoInfo("")] }

\* history mark: stop() cleared discovered_peers
Cleared == [kind |-> "Cleared", info |-> NoInfo("")]

\* PeerEvent
PeerDiscovered(p) == [type |-> "PeerDiscovered", peer |-> p, err |-> ""]
PeerLost(p) == [type |-> "PeerLost", peer |-> p, err |-> ""]
ServiceStarted == [type |-> "ServiceStarted", peer |-> NoPeer, err |-> ""]
ServiceStopped == [type |-> "ServiceStopped", peer |-> NoPeer, err |-> ""]
ErrorEvent(e) == [type |-> "Error", peer |-> NoPeer, err |-> e]
NoEvent == [type |-> "", peer |-> NoPeer, err |-> ""]

\* Option<T>
None == << >>

Some(d) == << d >>

VARIABLES
    is_running,        \* PeerDiscovery.is_running
    discovered_peers,  \* PeerDiscovery.discovered_peers: name -> Peer or NoPeer
    registered,        \* the daemon holds a registration of the local service
    pc,                \* where each caller is inside the call it makes
    tasks,             \* the tasks spawned by start_discovery
    chan,              \* the broadcast channel: buffered values and tail position
    rx,                \* the receivers created by subscribe()
    calls,             \* history: the calls made, their locals and their results
    regLog,            \* history: the calls made to daemon.register / unregister
    seen,              \* history: ServiceEvents received by the tasks, and clears
    published,         \* history: every PeerEvent handed to peer_sender.send
    engine             \* P2PEngine: its handle, and the services it has made

vars == << is_running, discovered_peers, registered, pc, tasks, chan, rx,
           calls, regLog, seen, published, engine >>

\* ------------------------------------------------------------- PeerDiscovery::new
Init ==
    /\ is_running = FALSE
    /\ discovered_peers = [n \in Names |-> NoPeer]
    /\ registered = FALSE
    /\ pc = [c \in Callers |-> "idle"]
    /\ tasks = << >>
    /\ chan = [buf |-> << >>, tail |-> 0]
    /\ rx = [s \in Subscribers |-> [live |-> FALSE, next |-> 0, lagged |-> FALSE,
                                at |-> 0, got |-> << >>]]
    /\ calls = << >>
    /\ regLog = << >>
    /\ seen = << >>
    /\ published = << >>
    /\ engine = [pc |-> "idle", discovery |-> None, made |-> 0,
                 held |-> [is_running |-> FALSE,
                           discovered_peers |-> [n \in Names |-> NoPeer],
                           registered |-> FALSE, tasks |-> << >>,
                           chan |-> [buf |-> << >>, tail |-> 0],
                           rx |-> [s \in Subscribers |->
                                     [live |-> FALSE, next |-> 0, lagged |-> FALSE,
                                      at |-> 0, got |-> << >>]],
                           calls |-> << >>, regLog |-> << >>, seen |-> << >>,
                           published |-> << >>],
                 dropped |-> << >>, log |-> << >>]

\* --------------------------------------------------------------- histories
\* index of the call caller c is in (its latest invocation)
current(c) == CHOOSE i \in DOMAIN calls :
                 calls[i].who = c /\ \A j \in DOMAIN calls : calls[j].who = c => j <= i

\* a call record: who called what and what it returned; for discover_peers the
\* duration to sleep, the time slept so far, whether it called start() and how
\* many ServiceEvents and clears had happened at its invocation; for get_peers
\* the names still to visit and the records cloned so far
Call(c, operation, result) ==
    [who |-> c, op |-> operation, ret |-> result, dur |-> 0, waited |-> 0,
     nested |-> FALSE, since |-> 0, todo |-> {}, peers |-> {}]

invoke(c, operation, result) ==
    calls' = Append(calls, Call(c, operation, result))

returns(c, result) ==
    calls' = [calls EXCEPT ![current(c)].ret = result]

\* ------------------------------------------------------------------ locks
\* the read guard of line 171 kept while discover_peers sleeps
is_running_readers_asleep == {c \in Callers : pc[c] = "sleep"}

\* callers holding a read guard of is_running from one step to the next: none,
\* the guard of line 171 is a temporary of the `if` condition and is dropped
\* before start() and sleep() run (a write() waits for every read guard)
is_running_readers == {c \in Callers : FALSE}

\* get_peers() holding no guard while it clones the map
discovered_peers_readers_none == {c \in Callers : FALSE}

\* callers holding a read guard of discovered_peers: those inside get_peers()
discovered_peers_readers == {c \in Callers : pc[c] = "get_peers"}

\* the write guard of discovered_peers kept until the event is sent
write_guard_held_to_send ==
    \/ \E i \in DOMAIN tasks : tasks[i].pend.type \in {"PeerDiscovered", "PeerLost"}
    \/ \E c \in Callers : pc[c] = "stop_send"

\* a write guard of discovered_peers is held from one step to the next: never,
\* the guards live in the blocks of lines 258-261, 269-272 and 136-139, which
\* end before the send that follows them
write_guard_held == FALSE

\* ------------------------------------------------------- broadcast channel
rx_cnt == Cardinality({s \in Subscribers : rx[s].live})

\* broadcast::Sender::send: with no receiver the value is returned in an Err and
\* not stored; otherwise it is stored at the tail, the oldest value making room.
send(ev) ==
    /\ published' = Append(published, ev)
    /\ chan' = IF rx_cnt = 0
               THEN chan
               ELSE [buf |-> IF Len(chan.buf) < ChannelCapacity
                             THEN Append(chan.buf, ev)
                             ELSE Append(Tail(chan.buf), ev),
                     tail |-> chan.tail + 1]

\* position of the oldest value still buffered
chan_head == chan.tail - Len(chan.buf)

\* a new receiver that starts at the oldest buffered value
subscribe_replay(s) ==
    /\ ~rx[s].live
    /\ rx' = [rx EXCEPT ![s] = [live |-> TRUE, next |-> chan_head, lagged |-> FALSE,
                                at |-> Len(published), got |-> << >>]]
    /\ UNCHANGED << is_running, discovered_peers, registered, pc, tasks, chan,
                    calls, regLog, seen, published >>
    /\ UNCHANGED engine

\* line 149, broadcast::Sender::subscribe: the new receiver starts at the tail
subscribe(s) ==
    /\ ~rx[s].live
    /\ rx' = [rx EXCEPT ![s] = [live |-> TRUE, next |-> chan.tail, lagged |-> FALSE,
                                at |-> Len(published), got |-> << >>]]
    /\ UNCHANGED << is_running, discovered_peers, registered, pc, tasks, chan,
                    calls, regLog, seen, published >>
    /\ UNCHANGED engine

\* a receiver that fell behind skips everything buffered
recv_skip_all(s) ==
    /\ rx[s].live
    /\ rx[s].next < chan.tail
    /\ rx' = IF rx[s].next < chan_head
             THEN [rx EXCEPT ![s].next = chan.tail, ![s].lagged = TRUE]
             ELSE [rx EXCEPT ![s].next = @ + 1,
                             ![s].got = Append(@, chan.buf[rx[s].next - chan_head + 1])]
    /\ UNCHANGED << is_running, discovered_peers, registered, pc, tasks, chan,
                    calls, regLog, seen, published >>
    /\ UNCHANGED engine

\* broadcast::Receiver::recv: a receiver that fell behind the buffer skips to the
\* oldest buffered value (RecvError::Lagged); otherwise it takes the next value.
recv(s) ==
    /\ rx[s].live
    /\ rx[s].next < chan.tail
    /\ rx' = IF rx[s].next < chan_head
             THEN [rx EXCEPT ![s].next = chan_head, ![s].lagged = TRUE]
             ELSE [rx EXCEPT ![s].next = @ + 1,
                             ![s].got = Append(@, chan.buf[rx[s].next - chan_head + 1])]
    /\ UNCHANGED << is_running, discovered_peers, registered, pc, tasks, chan,
                    calls, regLog, seen, published >>
    /\ UNCHANGED engine

\* ------------------------------------------------------ PeerDiscovery::start
\* start without the early return on a set flag
start_unguarded(c) ==
    /\ pc[c] = "idle"
    /\ is_running' = TRUE
    /\ invoke(c, "start", "none")
    /\ pc' = [pc EXCEPT ![c] = "register_service"]
    /\ UNCHANGED << discovered_peers, registered, tasks, chan, rx, regLog, seen,
                    published >>
    /\ UNCHANGED engine

\* lines 98-103: take the is_running write lock, return Ok if set, else set it
\* and drop the lock
start(c) ==
    /\ pc[c] = "idle"
    /\ is_running_readers = {}
    /\ IF is_running
       THEN /\ invoke(c, "start", "ok")
            /\ UNCHANGED << is_running, pc >>
       ELSE /\ is_running' = TRUE
            /\ invoke(c, "start", "none")
            /\ pc' = [pc EXCEPT ![c] = "register_service"]
    /\ UNCHANGED << discovered_peers, registered, tasks, chan, rx, regLog, seen,
                    published >>
    /\ UNCHANGED engine

\* line 108, register_service: ip_address() or ServiceInfo::new may fail before
\* the daemon is called; daemon.register may fail; `?` returns the error
register_service(c) ==
    /\ pc[c] = "register_service"
    /\ \E outcome \in {"ok", "no_interface", "register_failed"} :
        /\ regLog' = IF outcome = "no_interface" THEN regLog
                     ELSE Append(regLog, [call |-> "register", ok |-> outcome = "ok"])
        /\ registered' = IF outcome = "ok" THEN TRUE ELSE registered
        /\ pc' = [pc EXCEPT ![c] = IF outcome = "ok" THEN "start_discovery" ELSE "idle"]
        /\ calls' = IF outcome = "ok" THEN calls
                    ELSE [calls EXCEPT ![current(c)].ret = "err"]
    /\ UNCHANGED << is_running, discovered_peers, tasks, chan, rx, seen, published >>
    /\ UNCHANGED engine

\* line 111, start_discovery: tokio::spawn of the browse task, always Ok
start_discovery(c) ==
    /\ pc[c] = "start_discovery"
    /\ tasks' = Append(tasks, [st |-> "spawned", pend |-> NoEvent])
    /\ pc' = [pc EXCEPT ![c] = "start_send"]
    /\ UNCHANGED << is_running, discovered_peers, registered, chan, rx, calls,
                    regLog, seen, published >>
    /\ UNCHANGED engine

\* lines 113-116: publish ServiceStarted, return Ok: to the caller, or to
\* discover_peers (line 172), which goes on to sleep
start_send(c) ==
    /\ pc[c] = "start_send"
    /\ send(ServiceStarted)
    /\ IF calls[current(c)].op = "discover_peers"
       THEN /\ pc' = [pc EXCEPT ![c] = "sleep"]
            /\ UNCHANGED calls
       ELSE /\ pc' = [pc EXCEPT ![c] = "idle"]
            /\ returns(c, "ok")
    /\ UNCHANGED << is_running, discovered_peers, registered, tasks, rx, regLog, seen >>
    /\ UNCHANGED engine

\* ------------------------------------------------------- PeerDiscovery::stop
\* stop without the early return on a clear flag
stop_unguarded(c) ==
    /\ pc[c] = "idle"
    /\ is_running' = FALSE
    /\ invoke(c, "stop", "none")
    /\ pc' = [pc EXCEPT ![c] = "unregister"]
    /\ UNCHANGED << discovered_peers, registered, tasks, chan, rx, regLog, seen,
                    published >>
    /\ UNCHANGED engine

\* lines 121-126: take the is_running write lock, return Ok if clear, else clear
\* it and drop the lock
stop(c) ==
    /\ pc[c] = "idle"
    /\ is_running_readers = {}
    /\ IF ~is_running
       THEN /\ invoke(c, "stop", "ok")
            /\ UNCHANGED << is_running, pc >>
       ELSE /\ is_running' = FALSE
            /\ invoke(c, "stop", "none")
            /\ pc' = [pc EXCEPT ![c] = "unregister"]
    /\ UNCHANGED << discovered_peers, registered, tasks, chan, rx, regLog, seen,
                    published >>
    /\ UNCHANGED engine

\* a failure of daemon.unregister returned to the caller of stop()
unregister_or_return(c) ==
    /\ pc[c] = "unregister"
    /\ \E ok \in BOOLEAN :
        /\ regLog' = Append(regLog, [call |-> "unregister", ok |-> ok])
        /\ registered' = IF ok THEN FALSE ELSE registered
        /\ pc' = [pc EXCEPT ![c] = IF ok THEN "clear" ELSE "idle"]
        /\ calls' = IF ok THEN calls ELSE [calls EXCEPT ![current(c)].ret = "err"]
    /\ UNCHANGED << is_running, discovered_peers, tasks, chan, rx, seen, published >>
    /\ UNCHANGED engine

\* lines 131-133: daemon.unregister; a failure is logged and stop goes on
unregister(c) ==
    /\ pc[c] = "unregister"
    /\ \E ok \in BOOLEAN :
        /\ regLog' = Append(regLog, [call |-> "unregister", ok |-> ok])
        /\ registered' = IF ok THEN FALSE ELSE registered
    /\ pc' = [pc EXCEPT ![c] = "clear"]
    /\ UNCHANGED << is_running, discovered_peers, tasks, chan, rx, calls, seen,
                    published >>
    /\ UNCHANGED engine

\* a clear that publishes PeerLost for a peer it removes
clear_lost(c) ==
    /\ pc[c] = "clear"
    /\ discovered_peers_readers = {}
    /\ ~write_guard_held
    /\ discovered_peers' = [n \in Names |-> NoPeer]
    /\ seen' = Append(seen, Cleared)
    /\ IF \A n \in Names : discovered_peers[n] = NoPeer
          THEN UNCHANGED << chan, published >>
          ELSE \E n \in Names : /\ discovered_peers[n] # NoPeer
                                 /\ send(PeerLost(discovered_peers[n]))
    /\ pc' = [pc EXCEPT ![c] = "stop_send"]
    /\ UNCHANGED << is_running, registered, tasks, rx, calls, regLog >>
    /\ UNCHANGED engine

\* a clear that also aborts the spawned tasks
clear_and_abort(c) ==
    /\ pc[c] = "clear"
    /\ discovered_peers_readers = {}
    /\ ~write_guard_held
    /\ discovered_peers' = [n \in Names |-> NoPeer]
    /\ seen' = Append(seen, Cleared)
    /\ tasks' = [i \in DOMAIN tasks |-> [st |-> "closed", pend |-> NoEvent]]
    /\ pc' = [pc EXCEPT ![c] = "stop_send"]
    /\ UNCHANGED << is_running, registered, chan, rx, calls, regLog, published >>
    /\ UNCHANGED engine

\* the clear of the map left out
clear_skipped(c) ==
    /\ pc[c] = "clear"
    /\ seen' = Append(seen, Cleared)
    /\ pc' = [pc EXCEPT ![c] = "stop_send"]
    /\ UNCHANGED << is_running, discovered_peers, registered, tasks, chan, rx, calls,
                    regLog, published >>
    /\ UNCHANGED engine

\* lines 136-139: peers.clear() under the discovered_peers write lock
clear(c) ==
    /\ pc[c] = "clear"
    /\ discovered_peers_readers = {}
    /\ ~write_guard_held
    /\ discovered_peers' = [n \in Names |-> NoPeer]
    /\ seen' = Append(seen, Cleared)
    /\ pc' = [pc EXCEPT ![c] = "stop_send"]
    /\ UNCHANGED << is_running, registered, tasks, chan, rx, calls, regLog, published >>
    /\ UNCHANGED engine

\* lines 141-144: publish ServiceStopped, return Ok
stop_send(c) ==
    /\ pc[c] = "stop_send"
    /\ send(ServiceStopped)
    /\ pc' = [pc EXCEPT ![c] = "idle"]
    /\ returns(c, "ok")
    /\ UNCHANGED << is_running, discovered_peers, registered, tasks, rx, regLog, seen >>
    /\ UNCHANGED engine

\* ------------------------------------------------- PeerDiscovery::get_peers
\* lines 153-156: peers.values().cloned().collect(), order not significant
get_peers == {discovered_peers[n] : n \in Names} \ {NoPeer}

\* lines 159-162: peers.get(name).cloned()
get_peer(name) == discovered_peers[name]

\* line 154-155 as a call: take the read guard of discovered_peers
get_peers_enter(c) ==
    /\ pc[c] = "idle"
    /\ ~write_guard_held
    /\ calls' = Append(calls, [Call(c, "get_peers", "none") EXCEPT !.todo = Names])
    /\ pc' = [pc EXCEPT ![c] = "get_peers"]
    /\ UNCHANGED << is_running, discovered_peers, registered, tasks, chan, rx,
                    regLog, seen, published >>
    /\ UNCHANGED engine

\* line 155, values().cloned().collect(): the next entry of the map is cloned,
\* in the HashMap's unspecified order
get_peers_clone(c) ==
    /\ pc[c] = "get_peers"
    /\ \E n \in calls[current(c)].todo :
        calls' = [calls EXCEPT ![current(c)].todo = @ \ {n},
                               ![current(c)].peers =
                                   @ \cup ({discovered_peers[n]} \ {NoPeer})]
    /\ UNCHANGED << is_running, discovered_peers, registered, pc, tasks, chan, rx,
                    regLog, seen, published >>
    /\ UNCHANGED engine

\* discover_peers giving an error when the sleep ends with no peer found
get_peers_return_timeout(c) ==
    /\ pc[c] = "get_peers"
    /\ calls[current(c)].todo = {}
    /\ returns(c, IF calls[current(c)].op = "discover_peers"
                     /\ calls[current(c)].peers = {}
                  THEN "err" ELSE "ok")
    /\ pc' = [pc EXCEPT ![c] = "idle"]
    /\ UNCHANGED << is_running, discovered_peers, registered, tasks, chan, rx,
                    regLog, seen, published >>
    /\ UNCHANGED engine

\* lines 155-156 and 178-181: the guard is dropped, the Vec is returned (by
\* discover_peers in an Ok)
get_peers_return(c) ==
    /\ pc[c] = "get_peers"
    /\ calls[current(c)].todo = {}
    /\ returns(c, "ok")
    /\ pc' = [pc EXCEPT ![c] = "idle"]
    /\ UNCHANGED << is_running, discovered_peers, registered, tasks, chan, rx,
                    regLog, seen, published >>
    /\ UNCHANGED engine

\* -------------------------------------------- PeerDiscovery::discover_peers
\* Option<Duration> arguments, in ticks
Timeouts == {None, Some(1)}

\* Option::unwrap_or
unwrap_or(option, default) == IF option = None THEN default ELSE option[1]

\* lines 169-173: the timeout or config.discovery_timeout; read is_running and
\* call start() if it is clear
discover_peers(c, timeout_duration) ==
    /\ pc[c] = "idle"
    /\ calls' = Append(calls,
                   [Call(c, "discover_peers", "none") EXCEPT
                       !.dur = unwrap_or(timeout_duration, DiscoveryTimeout),
                       !.nested = ~is_running,
                       !.since = Len(seen)])
    /\ pc' = [pc EXCEPT ![c] = IF is_running THEN "sleep" ELSE "start"]
    /\ UNCHANGED << is_running, discovered_peers, registered, tasks, chan, rx,
                    regLog, seen, published >>
    /\ UNCHANGED engine

\* line 172, self.start(): lines 98-103 inside discover_peers; register_service,
\* start_discovery and start_send follow
discover_start(c) ==
    /\ pc[c] = "start"
    /\ is_running_readers = {}
    /\ IF is_running
       THEN /\ pc' = [pc EXCEPT ![c] = "sleep"]
            /\ UNCHANGED is_running
       ELSE /\ is_running' = TRUE
            /\ pc' = [pc EXCEPT ![c] = "register_service"]
    /\ UNCHANGED << discovered_peers, registered, tasks, chan, rx, calls, regLog,
                    seen, published >>
    /\ UNCHANGED engine

\* the callers inside sleep() at line 176
Sleeping(i) == pc[calls[i].who] = "sleep" /\ i = current(calls[i].who)

\* one tick of time passes for every caller inside sleep()
tick ==
    /\ \E i \in DOMAIN calls : Sleeping(i) /\ calls[i].waited < calls[i].dur
    /\ calls' = [i \in DOMAIN calls |->
                   IF Sleeping(i) /\ calls[i].waited < calls[i].dur
                   THEN [calls[i] EXCEPT !.waited = @ + 1]
                   ELSE calls[i]]
    /\ UNCHANGED << is_running, discovered_peers, registered, pc, tasks, chan, rx,
                    regLog, seen, published >>
    /\ UNCHANGED engine

\* a sleep that ends as soon as the map holds a peer
discover_wake_early(c) ==
    /\ pc[c] = "sleep"
    /\ calls[current(c)].waited >= calls[current(c)].dur \/ get_peers # {}
    /\ calls' = [calls EXCEPT ![current(c)].todo = Names]
    /\ pc' = [pc EXCEPT ![c] = "get_peers"]
    /\ UNCHANGED << is_running, discovered_peers, registered, tasks, chan, rx,
                    regLog, seen, published >>
    /\ UNCHANGED engine

\* lines 176-178: sleep(timeout_duration) is over, get_peers() takes the read
\* guard of discovered_peers
discover_wake(c) ==
    /\ pc[c] = "sleep"
    /\ ~write_guard_held
    /\ calls[current(c)].waited >= calls[current(c)].dur
    /\ calls' = [calls EXCEPT ![current(c)].todo = Names]
    /\ pc' = [pc EXCEPT ![c] = "get_peers"]
    /\ UNCHANGED << is_running, discovered_peers, registered, tasks, chan, rx,
                    regLog, seen, published >>
    /\ UNCHANGED engine

\* ------------------------------------------- PeerDiscovery::handle_service_event
\* Option<IpAddr> candidates of `.find(|addr| addr.is_ipv4())` over the HashSet
\* returned by get_addresses(): iteration order is unspecified, so any IPv4 one
ipv4_addresses(info) == {a \in info.addresses : is_ipv4(a)}

\* ServiceResolved inserts only when the name is not yet in the map
handle_service_event_keep_first(event, peers) ==
    IF event.kind = "ServiceResolved"
    THEN IF ipv4_addresses(event.info) = {}
         THEN { [peers |-> peers, ev |-> NoEvent, err |-> "No IPv4 address found"] }
         ELSE { [peers |-> IF peers[event.info.fullname] # NoPeer THEN peers
                           ELSE [peers EXCEPT ![event.info.fullname] =
                                    [name |-> event.info.fullname, ip |-> a,
                                     port |-> event.info.port]],
                 ev |-> PeerDiscovered([name |-> event.info.fullname, ip |-> a,
                                        port |-> event.info.port]),
                 err |-> ""] : a \in ipv4_addresses(event.info) }
    ELSE IF event.kind = "ServiceRemoved"
    THEN { [peers |-> [peers EXCEPT ![event.info.fullname] = NoPeer],
            ev |-> IF peers[event.info.fullname] # NoPeer
                   THEN PeerLost(peers[event.info.fullname])
                   ELSE NoEvent,
            err |-> ""] }
    ELSE { [peers |-> peers, ev |-> NoEvent, err |-> ""] }

\* ServiceResolved takes the first advertised address, whatever its family
handle_service_event_any_address(event, peers) ==
    IF event.kind = "ServiceResolved"
    THEN { [peers |-> [peers EXCEPT ![event.info.fullname] =
                          [name |-> event.info.fullname, ip |-> a,
                           port |-> event.info.port]],
            ev |-> PeerDiscovered([name |-> event.info.fullname, ip |-> a,
                                   port |-> event.info.port]),
            err |-> ""] : a \in event.info.addresses }
    ELSE IF event.kind = "ServiceRemoved"
    THEN { [peers |-> [peers EXCEPT ![event.info.fullname] = NoPeer],
            ev |-> IF peers[event.info.fullname] # NoPeer
                   THEN PeerLost(peers[event.info.fullname])
                   ELSE NoEvent,
            err |-> ""] }
    ELSE { [peers |-> peers, ev |-> NoEvent, err |-> ""] }

\* ServiceRemoved looks the entry up (peers.get) and leaves it in the map
handle_service_event_lookup(event, peers) ==
    IF event.kind = "ServiceResolved"
    THEN IF ipv4_addresses(event.info) = {}
         THEN { [peers |-> peers, ev |-> NoEvent, err |-> "No IPv4 address found"] }
         ELSE { [peers |-> [peers EXCEPT ![event.info.fullname] =
                               [name |-> event.info.fullname, ip |-> a,
                                port |-> event.info.port]],
                 ev |-> PeerDiscovered([name |-> event.info.fullname, ip |-> a,
                                        port |-> event.info.port]),
                 err |-> ""] : a \in ipv4_addresses(event.info) }
    ELSE IF event.kind = "ServiceRemoved"
    THEN { [peers |-> peers,
            ev |-> IF peers[event.info.fullname] # NoPeer
                   THEN PeerLost(peers[event.info.fullname])
                   ELSE NoEvent,
            err |-> ""] }
    ELSE { [peers |-> peers, ev |-> NoEvent, err |-> ""] }

\* the possible results: the map after the call, the PeerEvent it sent (NoEvent
\* for none) and the error it returned ("" for Ok)
handle_service_event(event, peers) ==
    IF event.kind = "ServiceResolved"
    THEN IF ipv4_addresses(event.info) = {}
         THEN { [peers |-> peers, ev |-> NoEvent, err |-> "No IPv4 address found"] }
         ELSE { [peers |-> [peers EXCEPT ![event.info.fullname] =
                               [name |-> event.info.fullname, ip |-> a,
                                port |-> event.info.port]],
                 ev |-> PeerDiscovered([name |-> event.info.fullname, ip |-> a,
                                        port |-> event.info.port]),
                 err |-> ""] : a \in ipv4_addresses(event.info) }
    ELSE IF event.kind = "ServiceRemoved"
    THEN { [peers |-> [peers EXCEPT ![event.info.fullname] = NoPeer],
            ev |-> IF peers[event.info.fullname] # NoPeer
                   THEN PeerLost(peers[event.info.fullname])
                   ELSE NoEvent,
            err |-> ""] }
    ELSE { [peers |-> peers, ev |-> NoEvent, err |-> ""] }

\* ------------------------------------- the task spawned by start_discovery
\* line 209: daemon.browse; on failure the task ends with the error as its value
browse(i) ==
    /\ tasks[i].st = "spawned"
    /\ \E ok \in BOOLEAN :
        tasks' = [tasks EXCEPT ![i].st = IF ok THEN "browsing" ELSE "failed"]
    /\ UNCHANGED << is_running, discovered_peers, registered, pc, chan, rx, calls,
                    regLog, seen, published >>
    /\ UNCHANGED engine

\* a loop that ends at the first event it cannot translate
task_recv_break(i, event) ==
    /\ tasks[i].st = "browsing"
    /\ tasks[i].pend = NoEvent
    /\ discovered_peers_readers = {}
    /\ ~write_guard_held
    /\ \E r \in handle_service_event(event, discovered_peers) :
        /\ seen' = Append(seen, event)
        /\ discovered_peers' = r.peers
        /\ tasks' = [tasks EXCEPT ![i] =
                        IF r.err # "" THEN [st |-> "closed", pend |-> NoEvent]
                        ELSE [st |-> "browsing", pend |-> r.ev]]
    /\ UNCHANGED << is_running, registered, pc, chan, rx, calls, regLog, published >>
    /\ UNCHANGED engine

\* lines 216-217: receive one ServiceEvent and run handle_service_event up to its
\* send; line 219: an Err becomes a PeerEvent::Error to send
task_recv(i, event) ==
    /\ tasks[i].st = "browsing"
    /\ tasks[i].pend = NoEvent
    /\ discovered_peers_readers = {}
    /\ ~write_guard_held
    /\ \E r \in handle_service_event(event, discovered_peers) :
        /\ seen' = Append(seen, event)
        /\ discovered_peers' = r.peers
        /\ tasks' = [tasks EXCEPT ![i].pend =
                        IF r.err # "" THEN ErrorEvent(r.err) ELSE r.ev]
    /\ UNCHANGED << is_running, registered, pc, chan, rx, calls, regLog, published >>
    /\ UNCHANGED engine

\* a send that leaves the event with the task, to be sent again
task_send_again(i) ==
    /\ tasks[i].pend # NoEvent
    /\ send(tasks[i].pend)
    /\ UNCHANGED << is_running, discovered_peers, registered, pc, tasks, rx, calls,
                    regLog, seen >>
    /\ UNCHANGED engine

\* lines 263, 275, 219: peer_sender.send of the event just produced
task_send(i) ==
    /\ tasks[i].pend # NoEvent
    /\ send(tasks[i].pend)
    /\ tasks' = [tasks EXCEPT ![i].pend = NoEvent]
    /\ UNCHANGED << is_running, discovered_peers, registered, pc, rx, calls,
                    regLog, seen >>
    /\ UNCHANGED engine

\* line 216: recv_async returns Err once the stream is closed; the loop ends
task_close(i) ==
    /\ tasks[i].st = "browsing"
    /\ tasks[i].pend = NoEvent
    /\ tasks' = [tasks EXCEPT ![i].st = "closed"]
    /\ UNCHANGED << is_running, discovered_peers, registered, pc, chan, rx, calls,
                    regLog, seen, published >>
    /\ UNCHANGED engine

\* ------------------------------------------------------------ P2PEngine (api.rs)
\* The variables of the service describe the PeerDiscovery the engine works on:
\* the one its handle holds, or the one start_discovery has created and is
\* starting; engine.held keeps the one the handle holds meanwhile. Caller c1 is
\* the engine inside its call: the methods take &mut self, so they never overlap.

\* the PeerDiscovery described by the variables of the service
Service ==
    [is_running |-> is_running, discovered_peers |-> discovered_peers,
     registered |-> registered, tasks |-> tasks, chan |-> chan, rx |-> rx,
     calls |-> calls, regLog |-> regLog, seen |-> seen, published |-> published]

\* CorePeerDiscovery::new(config), peer_discovery.rs lines 83-94
Created ==
    [is_running |-> FALSE, discovered_peers |-> [n \in Names |-> NoPeer],
     registered |-> FALSE, tasks |-> << >>, chan |-> [buf |-> << >>, tail |-> 0],
     rx |-> [s \in Subscribers |-> [live |-> FALSE, next |-> 0, lagged |-> FALSE,
                                    at |-> 0, got |-> << >>]],
     calls |-> << >>, regLog |-> << >>, seen |-> << >>, published |-> << >>]

\* the variables of the service now describe service
WorkOn(service) ==
    /\ is_running' = service.is_running
    /\ discovered_peers' = service.discovered_peers
    /\ registered' = service.registered
    /\ tasks' = service.tasks
    /\ chan' = service.chan
    /\ rx' = service.rx
    /\ calls' = service.calls
    /\ regLog' = service.regLog
    /\ seen' = service.seen
    /\ published' = service.published

\* what is left of a PeerDiscovery when the engine lets go of it: whether its
\* start() returned Ok, whether stop() was ever called on it, and what it holds
Dropped(service, id) ==
    [id |-> id,
     started |-> service.calls # << >> /\ service.calls[1].ret = "ok",
     stopped |-> \E i \in DOMAIN service.calls : service.calls[i].op = "stop",
     is_running |-> service.is_running,
     registered |-> service.registered,
     loops |-> Cardinality({i \in DOMAIN service.tasks :
                               service.tasks[i].st = "browsing"})]

\* the result of an engine method, with the handle before and after it
Result(method, ret, after) ==
    [method |-> method, ret |-> ret, before |-> engine.discovery, after |-> after]

\* api.rs lines 54-68: build the config and create the PeerDiscovery;
\* ServiceDaemon::new may fail and `?` returns the error
P2PEngine_start_discovery ==
    /\ engine.pc = "idle"
    /\ \E daemon \in {"ok", "err"} :
        IF daemon = "err"
        THEN /\ engine' = [engine EXCEPT
                   !.log = Append(@, Result("start_discovery", "err",
                                            engine.discovery))]
             /\ UNCHANGED << is_running, discovered_peers, registered, tasks, chan,
                             rx, calls, regLog, seen, published >>
        ELSE /\ engine' = [engine EXCEPT !.pc = "start",
                                         !.made = @ + 1,
                                         !.held = Service]
             /\ WorkOn(Created)
    /\ UNCHANGED pc

\* api.rs lines 70-76: discovery.start() has returned; on Err `?` returns it and
\* the new PeerDiscovery is dropped; on Ok self.discovery is assigned the new
\* one, and the one it held is dropped as it is
P2PEngine_start_discovery_return ==
    /\ engine.pc = "start"
    /\ calls # << >>
    /\ pc["c1"] = "idle"
    /\ IF calls[1].ret = "ok"
       THEN /\ engine' = [engine EXCEPT
                   !.pc = "idle",
                   !.discovery = Some(engine.made),
                   !.held = Created,
                   !.dropped = IF engine.discovery = None
                               THEN @
                               ELSE Append(@, Dropped(engine.held,
                                                      engine.discovery[1])),
                   !.log = Append(@, Result("start_discovery", "ok",
                                            Some(engine.made)))]
            /\ UNCHANGED << is_running, discovered_peers, registered, tasks, chan,
                            rx, calls, regLog, seen, published >>
       ELSE /\ engine' = [engine EXCEPT
                   !.pc = "idle",
                   !.held = Created,
                   !.dropped = Append(@, Dropped(Service, engine.made)),
                   !.log = Append(@, Result("start_discovery", "err",
                                            engine.discovery))]
            /\ WorkOn(engine.held)
    /\ UNCHANGED pc

\* api.rs lines 79-81 and 86-87: with no handle, self.discovery = None and Ok;
\* with a handle, lock it and call stop()
P2PEngine_stop_discovery ==
    /\ engine.pc = "idle"
    /\ IF engine.discovery = None
       THEN engine' = [engine EXCEPT
                !.log = Append(@, Result("stop_discovery", "ok", None))]
       ELSE engine' = [engine EXCEPT !.pc = "stop"]
    /\ UNCHANGED << is_running, discovered_peers, registered, pc, tasks, chan, rx,
                    calls, regLog, seen, published >>

\* api.rs lines 82-87: discovery.stop() has returned; on Err `?` returns it, on
\* Ok self.discovery = None drops the PeerDiscovery
P2PEngine_stop_discovery_return ==
    /\ engine.pc = "stop"
    /\ calls[Len(calls)].op = "stop"
    /\ pc["c1"] = "idle"
    /\ IF calls[Len(calls)].ret = "ok"
       THEN /\ engine' = [engine EXCEPT
                   !.pc = "idle",
                   !.discovery = None,
                   !.dropped = Append(@, Dropped(Service, engine.discovery[1])),
                   !.log = Append(@, Result("stop_discovery", "ok", None))]
            /\ WorkOn(Created)
       ELSE /\ engine' = [engine EXCEPT
                   !.pc = "idle",
                   !.log = Append(@, Result("stop_discovery", "err",
                                            engine.discovery))]
            /\ UNCHANGED << is_running, discovered_peers, registered, tasks, chan,
                            rx, calls, regLog, seen, published >>
    /\ UNCHANGED pc

\* ---------------------------------------------------------- specifications
\* no caller is inside a call
Quiescent == \A c \in Callers : pc[c] = "idle"

\* number of ServiceEvents received so far
RawCount == Cardinality({i \in DOMAIN seen : seen[i] # Cleared})

\* Concurrent callers of start() and stop() with the spawned tasks.
Next ==
    \/ \E c \in Callers : Len(calls) < MaxCalls /\ start(c)
    \/ \E c \in Callers : register_service(c)
    \/ \E c \in Callers : start_discovery(c)
    \/ \E c \in Callers : start_send(c)
    \/ \E c \in Callers : Len(calls) < MaxCalls /\ stop(c)
    \/ \E c \in Callers : unregister(c)
    \/ \E c \in Callers : clear(c)
    \/ \E c \in Callers : stop_send(c)
    \/ \E i \in DOMAIN tasks : browse(i)
    \/ \E i \in DOMAIN tasks : task_close(i)

Spec == Init /\ [][Next]_vars

\* One caller and the spawned tasks folding ServiceEvents into discovered_peers.
NextRegistry ==
    \/ Len(calls) < MaxRegistryCalls /\ start("c1")
    \/ register_service("c1")
    \/ start_discovery("c1")
    \/ start_send("c1")
    \/ Len(calls) < MaxRegistryCalls /\ stop("c1")
    \/ unregister("c1")
    \/ clear("c1")
    \/ stop_send("c1")
    \/ \E i \in DOMAIN tasks : browse(i)
    \/ \E i \in DOMAIN tasks, e \in ServiceEvents :
          RawCount < MaxRegistryRaw /\ task_recv(i, e)
    \/ \E i \in DOMAIN tasks : task_send(i)
    \/ \E i \in DOMAIN tasks : task_close(i)

SpecRegistry == Init /\ [][NextRegistry]_vars

\* the ServiceEvents fed to the tasks when the subscribers are observed
BusEvents ==
    { e \in ServiceEvents : /\ e.info.fullname = "alice"
                            /\ e.info.addresses \in {{}, {"fe80::1"}, {"10.0.0.6"}} }

\* One caller, the spawned tasks, and the subscribers of the event channel.
NextBus ==
    \/ Len(calls) < MaxBusCalls /\ start("c1")
    \/ register_service("c1")
    \/ start_discovery("c1")
    \/ start_send("c1")
    \/ Len(calls) < MaxBusCalls /\ stop("c1")
    \/ unregister("c1")
    \/ clear("c1")
    \/ stop_send("c1")
    \/ \E s \in Subscribers : subscribe(s)
    \/ \E s \in Subscribers : recv(s)
    \/ \E i \in DOMAIN tasks : browse(i)
    \/ \E i \in DOMAIN tasks, e \in BusEvents :
          RawCount < MaxBusRaw /\ task_recv(i, e)
    \/ \E i \in DOMAIN tasks : task_send(i)
    \/ \E i \in DOMAIN tasks : task_close(i)

SpecBus == Init /\ [][NextBus]_vars

\* the ServiceEvents fed to the tasks when the service is restarted
RestartEvents ==
    { e \in ServiceEvents : /\ e.info.fullname = "alice"
                            /\ e.info.addresses \in {{}, {"10.0.0.6"}} }

\* One caller that starts, stops and starts again, and every task spawned so far.
NextRestart ==
    \/ Len(calls) < MaxRestartCalls /\ start("c1")
    \/ register_service("c1")
    \/ start_discovery("c1")
    \/ start_send("c1")
    \/ Len(calls) < MaxRestartCalls /\ stop("c1")
    \/ unregister("c1")
    \/ clear("c1")
    \/ stop_send("c1")
    \/ \E i \in DOMAIN tasks : browse(i)
    \/ \E i \in DOMAIN tasks, e \in RestartEvents :
          RawCount < MaxRestartRaw /\ task_recv(i, e)
    \/ \E i \in DOMAIN tasks : task_send(i)
    \/ \E i \in DOMAIN tasks : task_close(i)

SpecRestart == Init /\ [][NextRestart]_vars

\* the ServiceEvents fed to the tasks while callers query the map
QueryEvents ==
    { e \in ServiceEvents : /\ e.info.fullname = "alice"
                            /\ e.info.addresses \in {{}, {"10.0.0.6"}} }

\* Caller c1 starts and stops the service while caller c2 queries it with
\* get_peers() and discover_peers(); the spawned tasks, whose streams stay
\* open; the passing of time.
NextQuery ==
    \/ Len(calls) < MaxQueryCalls /\ start("c1")
    \/ \E c \in Callers : register_service(c)
    \/ \E c \in Callers : start_discovery(c)
    \/ \E c \in Callers : start_send(c)
    \/ Len(calls) < MaxQueryCalls /\ stop("c1")
    \/ unregister("c1")
    \/ clear("c1")
    \/ stop_send("c1")
    \/ Len(calls) < MaxQueryCalls /\ get_peers_enter("c2")
    \/ get_peers_clone("c2")
    \/ get_peers_return("c2")
    \/ \E t \in Timeouts : Len(calls) < MaxQueryCalls /\ discover_peers("c2", t)
    \/ discover_start("c2")
    \/ tick
    \/ discover_wake("c2")
    \/ \E i \in DOMAIN tasks : browse(i)
    \/ \E i \in DOMAIN tasks, e \in QueryEvents :
          RawCount < MaxQueryRaw /\ task_recv(i, e)
    \/ \E i \in DOMAIN tasks : task_send(i)

SpecQuery == Init /\ [][NextQuery]_vars

\* the ServiceEvent the daemon delivers next when alice comes and goes in turn
LagEvent ==
    IF RawCount % 2 = 0
    THEN [kind |-> "ServiceResolved",
          info |-> [fullname |-> "alice", addresses |-> {"10.0.0.6"}, port |-> 9090]]
    ELSE [kind |-> "ServiceRemoved", info |-> NoInfo("alice")]

\* One start() and, once it returned, its task publishing more events than the
\* channel holds; a subscriber from the beginning that receives at its own pace
\* and one that subscribes late.
NextLag ==
    \/ calls = << >> /\ start("c1")
    \/ register_service("c1")
    \/ start_discovery("c1")
    \/ start_send("c1")
    \/ calls = << >> /\ subscribe("s1")
    \/ Len(published) >= MaxLagRaw - 1 /\ subscribe("s2")
    \/ \E s \in Subscribers : recv(s)
    \/ \E i \in DOMAIN tasks : browse(i)
    \/ \E i \in DOMAIN tasks :
          Quiescent /\ RawCount < MaxLagRaw /\ task_recv(i, LagEvent)
    \/ \E i \in DOMAIN tasks : task_send(i)

SpecLag == Init /\ [][NextLag]_vars

\* the ServiceEvents fed to the tasks of the service the engine works on
EngineEvents ==
    { e \in ServiceEvents : /\ e.info.fullname = "alice"
                            /\ e.info.addresses = {"10.0.0.6"} }

\* The engine's start_discovery and stop_discovery, one call at a time, each
\* running start() or stop() of its PeerDiscovery to the end, and the tasks of
\* the PeerDiscovery the engine works on.
NextEngine ==
    \/ Len(engine.log) < MaxEngineCalls /\ P2PEngine_start_discovery
    \/ engine.pc = "start" /\ calls = << >> /\ start("c1")
    \/ register_service("c1")
    \/ start_discovery("c1")
    \/ start_send("c1")
    \/ P2PEngine_start_discovery_return
    \/ Len(engine.log) < MaxEngineCalls /\ P2PEngine_stop_discovery
    \/ engine.pc = "stop" /\ calls[Len(calls)].op # "stop" /\ stop("c1")
    \/ unregister("c1")
    \/ clear("c1")
    \/ stop_send("c1")
    \/ P2PEngine_stop_discovery_return
    \/ \E i \in DOMAIN tasks : browse(i)
    \/ \E i \in DOMAIN tasks, e \in EngineEvents :
          RawCount < MaxEngineRaw /\ task_recv(i, e)
    \/ \E i \in DOMAIN tasks : task_send(i)
    \/ \E i \in DOMAIN tasks : task_close(i)

SpecEngine == Init /\ [][NextEngine]_vars

\* ------------------------------------------------------------ observations
StopInvoked == \E i \in DOMAIN calls : calls[i].op = "stop"

NumPublished(type) == Cardinality({i \in DOMAIN published : published[i].type = type})

RegisterCalls == Cardinality({i \in DOMAIN regLog : regLog[i].call = "register"})

\* a start()/stop() invocation happens in this step
Invoked(operation) ==
    /\ Len(calls') = Len(calls) + 1
    /\ calls'[Len(calls')].op = operation

\* ---------------------------------------------------------------------- C1
\* C1 (step): a start() invoked while is_running is set returns Ok at once and
\* changes nothing: no daemon call, no spawned task, no event, no state change.
C1_StartWhileRunning ==
    (Invoked("start") /\ is_running)
        => /\ calls'[Len(calls')].ret = "ok"
           /\ UNCHANGED << is_running, discovered_peers, registered, pc, tasks,
                           chan, rx, regLog, seen, published >>

\* C1 (state): as long as no stop() was invoked, there is at most one register
\* call, one spawned task and one ServiceStarted, however many start() calls
\* were made; and exactly one of each once all calls returned without error.
C1_AtMostOnce ==
    ~StopInvoked
        => /\ RegisterCalls <= 1
           /\ Len(tasks) <= 1
           /\ NumPublished("ServiceStarted") <= 1
           /\ (/\ Quiescent
               /\ calls # << >>
               /\ \A i \in DOMAIN calls : calls[i].ret = "ok")
                  => /\ RegisterCalls = 1
                     /\ Len(tasks) = 1
                     /\ NumPublished("ServiceStarted") = 1

\* C1: start() is idempotent: a start() while Running is a no-op success, so
\* start() calls with no stop() between them yield exactly one ServiceStarted
\* event and exactly one registration call.
C1_StartIdempotent == [](C1_AtMostOnce) /\ [][C1_StartWhileRunning]_vars

\* two start() calls returned Ok one after the other, no stop(), one registration
C1_Witness ==
    /\ Len(calls) >= 2
    /\ calls[1].op = "start" /\ calls[1].ret = "ok"
    /\ calls[2].op = "start" /\ calls[2].ret = "ok"
    /\ ~StopInvoked
    /\ Quiescent
    /\ RegisterCalls = 1
    /\ NumPublished("ServiceStarted") = 1

\* ---------------------------------------------------------------------- C2
\* C2: a stop() invoked while is_running is clear (freshly created or already
\* stopped) returns Ok and changes nothing: no unregister call, the registry and
\* the flag are as before, and nothing is published.
C2_StopWhileStopped ==
    [][ (Invoked("stop") /\ ~is_running)
            => /\ calls'[Len(calls')].ret = "ok"
               /\ UNCHANGED << is_running, discovered_peers, registered, pc, tasks,
                               chan, rx, regLog, seen, published >> ]_vars

\* a stop() on the created service, and a second stop() after a completed one
C2_Witness ==
    /\ Len(calls) = 4
    /\ calls[1].op = "stop" /\ calls[1].ret = "ok"
    /\ calls[2].op = "start" /\ calls[2].ret = "ok"
    /\ calls[3].op = "stop" /\ calls[3].ret = "ok"
    /\ calls[4].op = "stop" /\ calls[4].ret = "ok"
    /\ NumPublished("ServiceStopped") = 1
    /\ Len(regLog) = 2
    /\ ~is_running

\* ---------------------------------------------------------------------- C3
\* the daemon calls that took effect or were attempted: a register call that
\* failed registered nothing and is left out
RegistrarCalls == SelectSeq(regLog, LAMBDA r : r.call = "unregister" \/ r.ok)

NoFailure ==
    /\ \A i \in DOMAIN regLog : regLog[i].ok
    /\ \A i \in DOMAIN calls : calls[i].ret # "err"

\* C3: under any interleaving of start() and stop() calls, register and
\* unregister calls alternate, beginning with register, and once every call has
\* returned (none having failed) is_running agrees with the registration.
C3_Serialized ==
    /\ \A i \in DOMAIN RegistrarCalls :
          RegistrarCalls[i].call = IF i % 2 = 1 THEN "register" ELSE "unregister"
    /\ (Quiescent /\ NoFailure) => (is_running <=> registered)

\* ---------------------------------------------------------------------- C5
\* C5: when registration fails, start() returns the error having published no
\* ServiceStarted and spawned no task, and the service is left not Running.
C5_FailedStartNotRunning ==
    (/\ Quiescent
     /\ calls # << >>
     /\ calls[Len(calls)].op = "start"
     /\ calls[Len(calls)].ret = "err")
        => /\ ~is_running
           /\ Len(calls) = 1 => (tasks = << >> /\ published = << >>)

\* ---------------------------------------------------------------------- C6
\* a task of start_discovery that has not ended
LoopActive == \E i \in DOMAIN tasks : tasks[i].st \in {"spawned", "browsing"}

\* C6: once the calls have returned, a service with is_running set is registered
\* and has an active browse task, and one with is_running clear is not registered.
C6_RunningIffRegistered ==
    Quiescent => /\ is_running => (registered /\ LoopActive)
                 /\ ~is_running => ~registered

\* ------------------------------------------------- the fold of the history
Resolved(e) == e.kind = "ServiceResolved" /\ ipv4_addresses(e.info) # {}

Unresolvable(e) == e.kind = "ServiceResolved" /\ ipv4_addresses(e.info) = {}

Absent == NoInfo("")

\* insert-or-overwrite on a resolved record, remove on a removed one, keyed by
\* name; a clear empties the map; name -> the record last resolved, or Absent
RECURSIVE Fold(_)
Fold(h) ==
    IF h = << >> THEN [n \in Names |-> Absent]
    ELSE LET e == h[Len(h)]
             before == Fold(SubSeq(h, 1, Len(h) - 1))
         IN  IF e = Cleared THEN [n \in Names |-> Absent]
             ELSE IF Resolved(e) THEN [before EXCEPT ![e.info.fullname] = e.info]
             ELSE IF e.kind = "ServiceRemoved"
                  THEN [before EXCEPT ![e.info.fullname] = Absent]
             ELSE before

\* peer p is the record built from the resolved info
BuiltFrom(p, info) ==
    /\ p.name = info.fullname
    /\ p.port = info.port
    /\ p.ip \in ipv4_addresses(info)

\* positions of the resolved records of a name that no later removal of the
\* name (or clear) follows
Live(name) ==
    { i \in DOMAIN seen :
        /\ Resolved(seen[i])
        /\ seen[i].info.fullname = name
        /\ \A j \in DOMAIN seen :
              j > i => /\ seen[j] # Cleared
                       /\ ~(seen[j].kind = "ServiceRemoved"
                            /\ seen[j].info.fullname = name) }

Max(S) == CHOOSE x \in S : \A y \in S : y <= x

Pending(type) == Cardinality({i \in DOMAIN tasks : tasks[i].pend.type = type})

\* a task receives a ServiceEvent in this step
Received == Len(seen') = Len(seen) + 1 /\ seen'[Len(seen')] # Cleared

\* ---------------------------------------------------------------------- C7
\* C7: with no stop() clearing the map, discovered_peers is the fold of the
\* ServiceEvents received (insert-or-overwrite on Resolved, remove on Removed,
\* keyed by name, once per event): every entry is stored under its own name, and
\* get_peer(name) is the record of the latest Resolved of that name that no
\* Removed of the name follows, or None if there is none.
C7_RegistryFold ==
    (\A i \in DOMAIN seen : seen[i] # Cleared)
        => \A n \in Names :
            /\ (get_peer(n) = NoPeer) <=> (Fold(seen)[n] = Absent)
            /\ get_peer(n) # NoPeer => BuiltFrom(get_peer(n), Fold(seen)[n])
            /\ (get_peer(n) = NoPeer) <=> (Live(n) = {})
            /\ get_peer(n) # NoPeer => BuiltFrom(get_peer(n), seen[Max(Live(n))].info)
            /\ Cardinality({p \in get_peers : p.name = n}) <= 1

\* a record of alice was overwritten by a later one, and bob resolved and removed
C7_Witness ==
    /\ \A i \in DOMAIN seen : seen[i] # Cleared
    /\ Len(seen) >= 2
    /\ Resolved(seen[1]) /\ Resolved(seen[2])
    /\ seen[1].info.fullname = "alice" /\ seen[2].info.fullname = "alice"
    /\ seen[1].info # seen[2].info
    /\ get_peer("alice").ip = "10.0.0.6"

\* ---------------------------------------------------------------------- C4
\* a stop() that cleared the map has returned and no start() was invoked since
Stopped ==
    /\ Quiescent
    /\ calls # << >>
    /\ calls[Len(calls)].op = "stop"
    /\ \E i \in DOMAIN seen : seen[i] = Cleared

LastCleared == Max({i \in DOMAIN seen : seen[i] = Cleared})

C9_Step ==
    (Received /\ Unresolvable(seen'[Len(seen')]))
        => /\ discovered_peers' = discovered_peers
           /\ published' = published
           /\ \E i \in DOMAIN tasks :
                /\ tasks[i].pend = NoEvent
                /\ tasks' = [tasks EXCEPT
                               ![i].pend = ErrorEvent("No IPv4 address found")]

\* C9 (state): the Error events sent or about to be sent are one per Resolved
\* event without IPv4 address, and the PeerDiscovered ones one per Resolved
\* event with an IPv4 address.
C9_Count ==
    /\ NumPublished("Error") + Pending("Error")
         = Cardinality({i \in DOMAIN seen : Unresolvable(seen[i])})
    /\ NumPublished("PeerDiscovered") + Pending("PeerDiscovered")
         = Cardinality({i \in DOMAIN seen : Resolved(seen[i])})
    /\ \A i \in DOMAIN published :
          published[i].type = "Error" => published[i].err = "No IPv4 address found"

\* C9: a Resolved event advertising no IPv4 address leaves the registry
\* unchanged (an existing entry of the name included), publishes no
\* PeerDiscovered and publishes exactly one Error event with the address error.
C9_NoIpv4 == [](C9_Count) /\ [][C9_Step]_vars

\* alice is known; a Resolved event of alice without IPv4 address was received
\* and its Error published, alice's entry is still there
C9_Witness ==
    /\ Len(seen) = 2
    /\ Resolved(seen[1]) /\ seen[1].info.fullname = "alice"
    /\ Unresolvable(seen[2]) /\ seen[2].info.fullname = "alice"
    /\ BuiltFrom(get_peer("alice"), seen[1].info)
    /\ NumPublished("Error") = 1
    /\ NumPublished("PeerDiscovered") = 1

\* --------------------------------------------------------------------- C10
\* C10 (step): receiving Removed(name) removes the entry of the name, if there is
\* one, and leaves PeerLost with the removed record to send; if there is none
\* the registry and the tasks are as before. Nothing is published in that step.
C10_Step ==
    (Received /\ seen'[Len(seen')].kind = "ServiceRemoved")
        => LET name == seen'[Len(seen')].info.fullname
           IN  /\ published' = published
               /\ IF discovered_peers[name] # NoPeer
                  THEN /\ discovered_peers' = [discovered_peers EXCEPT ![name] = NoPeer]
                       /\ \E i \in DOMAIN tasks :
                            /\ tasks[i].pend = NoEvent
                            /\ tasks' = [tasks EXCEPT
                                   ![i].pend = PeerLost(discovered_peers[name])]
                  ELSE /\ discovered_peers' = discovered_peers
                       /\ tasks' = tasks

\* C10 (state): the PeerLost events sent or about to be sent are one per Removed
\* event whose name was in the registry when it was received.
C10_Count ==
    NumPublished("PeerLost") + Pending("PeerLost")
       = Cardinality({ i \in DOMAIN seen :
            /\ seen[i].kind = "ServiceRemoved"
            /\ Fold(SubSeq(seen, 1, i - 1))[seen[i].info.fullname] # Absent })

\* C10: Removed(name) with an entry of the name removes it and publishes exactly
\* one PeerLost carrying the removed record; without an entry it changes nothing
\* and publishes nothing.
C10_Removed == [](C10_Count) /\ [][C10_Step]_vars

\* alice was resolved and removed, PeerLost(alice) is published with her record;
\* or a Removed of an unknown name was received and nothing was published for it
C10_Witness ==
    /\ Len(seen) = 2
    /\ Resolved(seen[1])
    /\ seen[2].kind = "ServiceRemoved"
    /\ seen[2].info.fullname = seen[1].info.fullname
    /\ Len(published) = 3
    /\ published[3].type = "PeerLost"
    /\ published[3].peer = published[2].peer
    /\ get_peers = {}

\* ---------------------------------------------------------------------- C8
\* the events published since subscriber s subscribed
PublishedSince(s) == SubSeq(published, rx[s].at + 1, Len(published))

\* C8: a receiver that never lagged has received, in order, a prefix of the
\* events published since its subscribe() and nothing published before it; the
\* next of those events is there for it to receive until it has them all.
C8_Visibility ==
    \A s \in Subscribers :
        (rx[s].live /\ ~rx[s].lagged)
            => /\ Len(rx[s].got) <= Len(PublishedSince(s))
               /\ rx[s].got = SubSeq(PublishedSince(s), 1, Len(rx[s].got))
               /\ (rx[s].next = chan.tail) <=> (rx[s].got = PublishedSince(s))

\* s1 subscribed before ServiceStarted and received it; s2 subscribed after it
\* and has received everything published since, which does not include it
C8_Witness ==
    /\ rx["s1"].live /\ rx["s2"].live
    /\ rx["s1"].at = 0 /\ rx["s2"].at = 1
    /\ Len(published) >= 2
    /\ published[1] = ServiceStarted
    /\ rx["s1"].got = published
    /\ rx["s2"].got = Tail(published)

\* --------------------------------------------------------------------- C11
\* PeerEvents of a type and peer name, sent or left to send by a task
NumEvents(type, name, port) ==
    Cardinality({i \in DOMAIN published :
                    /\ published[i].type = type
                    /\ published[i].peer.name = name
                    /\ published[i].peer.port = port})
    + Cardinality({i \in DOMAIN tasks :
                    /\ tasks[i].pend.type = type
                    /\ tasks[i].pend.peer.name = name
                    /\ tasks[i].pend.peer.port = port})

Ports == {i.port : i \in ServiceInfos}

\* positions of the Removed events whose name was in the map when received
RemovedKnown(name) ==
    { i \in DOMAIN seen :
        /\ seen[i].kind = "ServiceRemoved"
        /\ seen[i].info.fullname = name
        /\ Fold(SubSeq(seen, 1, i - 1))[name] # Absent }

\* C11 (state): per name and port, the PeerDiscovered events sent or about to be
\* sent are as many as the Resolved events with an IPv4 address received for
\* them, and the PeerLost events as many as the Removed events of the name
\* received while the map held it; whatever start() and stop() calls were made.
C11_PerTransition ==
    /\ \A n \in Names, q \in Ports :
          NumEvents("PeerDiscovered", n, q)
            = Cardinality({i \in DOMAIN seen :
                              /\ Resolved(seen[i])
                              /\ seen[i].info.fullname = n
                              /\ seen[i].info.port = q})
    /\ \A n \in Names :
          Cardinality({i \in DOMAIN published : /\ published[i].type = "PeerLost"
                                                /\ published[i].peer.name = n})
          + Cardinality({i \in DOMAIN tasks : /\ tasks[i].pend.type = "PeerLost"
                                              /\ tasks[i].pend.peer.name = n})
            = Cardinality(RemovedKnown(n))

\* C11 (step): a PeerDiscovered or PeerLost is published by the task that holds
\* it to send, which then holds nothing; the step that receives a Resolved event
\* puts the record in the map and publishes nothing yet.
C11_Step ==
    /\ (/\ Len(published') = Len(published) + 1
        /\ published'[Len(published')].type \in {"PeerDiscovered", "PeerLost"})
          => \E i \in DOMAIN tasks :
                /\ tasks[i].pend = published'[Len(published')]
                /\ tasks' = [tasks EXCEPT ![i].pend = NoEvent]
    /\ (Received /\ Resolved(seen'[Len(seen')]))
          => /\ published' = published
             /\ BuiltFrom(discovered_peers'[seen'[Len(seen')].info.fullname],
                          seen'[Len(seen')].info)

DiscoverStep(i) ==
    /\ calls[i].op = "discover_peers"
    /\ calls[i].ret = "none"
    /\ pc'[calls[i].who] # pc[calls[i].who]

\* C12 (step): discover_peers goes into start() exactly if is_running is clear
\* when it is invoked, and else straight to its sleep; a step of the call that
\* fails to register returns Err, and no other step does; the step that returns
\* Ok carries the records of the map, be there any or none.
C12_Step ==
    /\ Invoked("discover_peers")
         => LET c == calls'[Len(calls')].who
            IN  /\ pc'[c] = IF is_running THEN "sleep" ELSE "start"
                /\ calls'[Len(calls')].ret = "none"
                /\ UNCHANGED << is_running, discovered_peers, registered, tasks,
                                chan, rx, regLog, seen, published >>
    /\ \A i \in DOMAIN calls :
          DiscoverStep(i)
            => LET c == calls[i].who
               IN  /\ calls'[i].ret = "err"
                       <=> /\ pc[c] = "register_service"
                           /\ registered' = registered
                           /\ tasks' = tasks
                           /\ \/ regLog' = regLog
                              \/ /\ Len(regLog') = Len(regLog) + 1
                                 /\ ~regLog'[Len(regLog')].ok
                   /\ calls'[i].ret = "ok"
                       => /\ pc[c] = "get_peers"
                          /\ calls'[i].peers = get_peers

\* C12 (state): a discover_peers call that found is_running set has not failed;
\* one that failed had called start() and published nothing.
C12_Results ==
    \A i \in DOMAIN calls :
        calls[i].op = "discover_peers"
            => /\ calls[i].ret \in {"none", "ok", "err"}
               /\ calls[i].ret = "err" => calls[i].nested
               /\ (calls[i].ret = "err" /\ Len(calls) = 1) => published = << >>

\* C12: discover_peers calls start() first iff is_running is clear and returns
\* Err exactly when that start() fails; otherwise it returns Ok with the
\* snapshot of the map, an empty one included: there is no timeout error.
C12_DiscoverResult == [](C12_Results) /\ [][C12_Step]_vars

\* a discover_peers whose start() failed to register returned Err; the next one
\* found is_running set, called no start() and returned Ok with no peer
C12_Witness ==
    /\ Len(calls) = 2
    /\ calls[1].op = "discover_peers" /\ calls[1].nested /\ calls[1].ret = "err"
    /\ calls[2].op = "discover_peers" /\ ~calls[2].nested /\ calls[2].ret = "ok"
    /\ calls[2].peers = {}
    /\ calls[2].waited = calls[2].dur
    /\ published = << >>

\* --------------------------------------------------------------------- C13
\* C13 (state): a discover_peers call has cloned nothing before its sleep is
\* over, and is past its sleep only when the whole duration has elapsed,
\* whatever the map held in the meantime.
C13_FullWait ==
    \A i \in DOMAIN calls :
        calls[i].op = "discover_peers"
            => /\ calls[i].waited <= calls[i].dur
               /\ calls[i].waited < calls[i].dur
                    => /\ calls[i].ret # "ok"
                       /\ calls[i].peers = {}
                       /\ pc[calls[i].who] # "get_peers" \/ i # current(calls[i].who)
               /\ calls[i].ret = "ok" => calls[i].waited = calls[i].dur

\* C13 (step): the snapshot discover_peers returns is the map as it is when the
\* call returns, after the sleep: it holds a record of a name exactly if the
\* ServiceEvents and clears up to then, those during the sleep included, leave
\* the name in the map, and that record is the one last resolved.
C13_Step ==
    \A i \in DOMAIN calls :
        (calls[i].op = "discover_peers" /\ calls[i].ret = "none" /\ calls'[i].ret = "ok")
            => /\ calls'[i].peers = get_peers
               /\ seen' = seen
               /\ \A n \in Names :
                    /\ (\E p \in calls'[i].peers : p.name = n) <=> Fold(seen)[n] # Absent
                    /\ \A p \in calls'[i].peers :
                          p.name = n => BuiltFrom(p, Fold(seen)[n])

\* C13: discover_peers(D) waits the full D even if peers appear earlier, and its
\* snapshot is taken at or after the end of the wait, so it reflects every
\* change of the map completed during the wait.
C13_SamplingBound == [](C13_FullWait) /\ [][C13_Step]_vars

\* discover_peers found the service running and slept; alice was resolved after
\* it was invoked; it returned after the full default duration with alice
C13_Witness ==
    /\ Len(calls) = 2
    /\ calls[2].op = "discover_peers" /\ ~calls[2].nested /\ calls[2].ret = "ok"
    /\ calls[2].dur = DiscoveryTimeout /\ calls[2].waited = DiscoveryTimeout
    /\ calls[2].since = 0
    /\ Len(seen) = 1 /\ Resolved(seen[1])
    /\ \E p \in calls[2].peers : p.name = "alice"

\* --------------------------------------------------------------------- C14
NumAt(label) == Cardinality({c \in Callers : pc[c] = label})

UnregisterCalls == Cardinality({i \in DOMAIN regLog : regLog[i].call = "unregister"})

\* C14 (state): no stop() returns an error; whether daemon.unregister succeeded
\* or failed, the stop() that called it clears the map and then publishes one
\* ServiceStopped: clears and ServiceStopped events are as many as unregister
\* calls, less those of the stop() calls still on their way; is_running is clear
\* while the caller is inside such a stop().
C14_StopCompletes ==
    /\ \A i \in DOMAIN calls : calls[i].op = "stop" => calls[i].ret # "err"
    /\ Cardinality({i \in DOMAIN seen : seen[i] = Cleared})
          = UnregisterCalls - NumAt("clear")
    /\ NumPublished("ServiceStopped")
          = UnregisterCalls - NumAt("clear") - NumAt("stop_send")
    /\ pc["c1"] \in {"unregister", "clear", "stop_send"} => ~is_running

\* C14 (step): the step in which daemon.unregister fails leaves the daemon's
\* registration and the flag as they are and takes the caller on to the clear.
C14_Step ==
    (/\ Len(regLog') = Len(regLog) + 1
     /\ regLog'[Len(regLog')] = [call |-> "unregister", ok |-> FALSE])
        => /\ pc["c1"] = "unregister" /\ pc'["c1"] = "clear"
           /\ UNCHANGED << is_running, registered, discovered_peers, calls, published >>

\* C14: a failing daemon.unregister does not stop stop(): it still clears the
\* map, leaves is_running clear, publishes exactly one ServiceStopped and
\* returns Ok.
C14_UnregisterFailure == [](C14_StopCompletes) /\ [][C14_Step]_vars

\* start() then stop() returned Ok although daemon.unregister failed: the peer
\* resolved before is gone, one ServiceStopped is published, the flag is clear
C14_Witness ==
    /\ Len(calls) = 2
    /\ calls[2].op = "stop" /\ calls[2].ret = "ok"
    /\ Len(regLog) = 2
    /\ regLog[2] = [call |-> "unregister", ok |-> FALSE]
    /\ registered
    /\ ~is_running
    /\ Len(seen) = 2 /\ Resolved(seen[1]) /\ seen[2] = Cleared
    /\ get_peers = {}
    /\ NumPublished("ServiceStopped") = 1
    /\ published[Len(published)] = ServiceStopped

\* --------------------------------------------------------------------- C15
\* how many of the events published since s subscribed its cursor has passed
Passed(s) == Len(PublishedSince(s)) - (chan.tail - rx[s].next)

\* a is b with some elements left out
RECURSIVE IsSubSeq(_, _)
IsSubSeq(a, b) ==
    IF a = << >> THEN TRUE
    ELSE IF b = << >> THEN FALSE
    ELSE IF Head(a) = Head(b) THEN IsSubSeq(Tail(a), Tail(b))
    ELSE IsSubSeq(a, Tail(b))

\* C15 (state): every receiver has, in publication order, events published
\* since it subscribed up to its own cursor: all of them if it never lagged,
\* and in any case all of those that are among the last ChannelCapacity events
\* published. The buffer never holds more than ChannelCapacity values, and a
\* task with an event to send can send it whatever the receivers do.
C15_Delivery ==
    /\ Len(chan.buf) <= ChannelCapacity
    /\ \A i \in DOMAIN tasks : tasks[i].pend # NoEvent => ENABLED task_send(i)
    /\ \A s \in Subscribers :
          rx[s].live
            => LET ps == PublishedSince(s)
                   m == Passed(s)
                   d == m - Len(rx[s].got)
               IN  /\ 0 <= m /\ m <= Len(ps)
                   /\ d >= 0
                   /\ d > 0 => rx[s].lagged
                   /\ IsSubSeq(rx[s].got, SubSeq(ps, 1, m))
                   /\ LET j == IF Len(ps) > ChannelCapacity
                               THEN Len(ps) - ChannelCapacity ELSE 0
                      IN  m > j => /\ Len(rx[s].got) >= m - j
                                   /\ SubSeq(ps, j + 1, m)
                                        = SubSeq(rx[s].got,
                                                 Len(rx[s].got) - (m - j) + 1,
                                                 Len(rx[s].got))

\* C15 (step): a send changes no receiver; with no receiver it stores nothing
\* and is a publication all the same; a receiver that takes a value moves only
\* its own cursor.
C15_Step ==
    /\ published' # published
         => /\ rx' = rx
            /\ rx_cnt = 0 => chan' = chan
            /\ rx_cnt > 0 => chan'.tail = chan.tail + 1
    /\ \A s \in Subscribers :
          rx'[s] # rx[s] => \A t \in Subscribers \ {s} : rx'[t] = rx[t]

\* C15: the channel fans every published event out to all current receivers,
\* each with its own cursor, in publication order; publishing never waits for a
\* receiver and an event published with no receiver is dropped without error;
\* the backlog is bounded by the capacity and a receiver that falls behind
\* misses only the oldest buffered events.
C15_FanOut == [](C15_Delivery) /\ [][C15_Step]_vars

\* s1 fell behind by more than the capacity, lagged and has caught up; s2
\* subscribed late and has everything published since; both got the last event
C15_Witness ==
    /\ Len(published) > ChannelCapacity + 1
    /\ rx["s1"].live /\ rx["s1"].lagged
    /\ rx["s1"].next = chan.tail
    /\ Len(rx["s1"].got) = ChannelCapacity
    /\ rx["s2"].live /\ ~rx["s2"].lagged
    /\ rx["s2"].next = chan.tail
    /\ rx["s2"].got # << >>
    /\ rx["s2"].got = PublishedSince("s2")
    /\ rx["s1"].got[Len(rx["s1"].got)] = published[Len(published)]

\* --------------------------------------------------------------------- C16
\* C16: as long as one start() has spawned a task, no PeerDiscovered, PeerLost or
\* Error of that task is published before the ServiceStarted of that start(),
\* and a receiver subscribed before the start() receives ServiceStarted first.
C16_StartedFirst ==
    Len(tasks) <= 1
        => /\ \A i \in DOMAIN published :
                published[i].type \in {"PeerDiscovered", "PeerLost", "Error"}
                    => \E j \in 1 .. i - 1 : published[j] = ServiceStarted
           /\ \A s \in Subscribers :
                (rx[s].live /\ rx[s].at = 0 /\ rx[s].got # << >>)
                    => rx[s].got[1] = ServiceStarted

\* --------------------------------------------------------------------- C17
\* C17 (state): a caller inside the sleep of discover_peers holds neither the
\* guard of is_running nor one of discovered_peers; every other caller not in a
\* call can enter start(), stop(), get_peers() and discover_peers(), a caller
\* inside start() or stop() can take its next step, and a task ready to receive
\* can write the map, unless a get_peers() of another caller is reading it.
C17_OnlyCallerSuspended ==
    \A c \in Callers :
        pc[c] = "sleep"
          => /\ c \notin is_running_readers
             /\ c \notin discovered_peers_readers
             /\ \A d \in Callers \ {c} :
                  /\ pc[d] = "idle"
                       => /\ ENABLED start(d)
                          /\ ENABLED stop(d)
                          /\ ENABLED get_peers_enter(d)
                          /\ \A t \in Timeouts : ENABLED discover_peers(d, t)
                  /\ pc[d] = "register_service" => ENABLED register_service(d)
                  /\ pc[d] = "start_discovery" => ENABLED start_discovery(d)
                  /\ pc[d] = "start_send" => ENABLED start_send(d)
                  /\ pc[d] = "unregister" => ENABLED unregister(d)
                  /\ pc[d] = "clear" => ENABLED clear(d)
                  /\ pc[d] = "stop_send" => ENABLED stop_send(d)
             /\ \A i \in DOMAIN tasks :
                  (tasks[i].st = "browsing" /\ tasks[i].pend = NoEvent)
                      => \A e \in QueryEvents : ENABLED task_recv(i, e)

\* C17 (step): the steps other callers and the tasks take while a caller sleeps
\* leave that caller asleep with its call record as it is.
C17_Step ==
    \A c \in Callers :
        (pc[c] = "sleep" /\ pc'[c] = "sleep"
            /\ calls'[current(c)].waited = calls[current(c)].waited)
          => calls'[current(c)] = calls[current(c)]

\* C17: discover_peers suspends only its caller: while it waits it holds neither
\* the is_running lock nor the discovered_peers lock, so start(), stop(),
\* get_peers(), other discover_peers calls and the tasks' writes of the map go
\* on without waiting for it.
C17_SuspendsOnlyCaller == [](C17_OnlyCallerSuspended) /\ [][C17_Step]_vars

\* while c2 is still inside the sleep of its discover_peers, a task inserted
\* alice and the stop() of c1 ran from its call to its return
C17_Witness ==
    /\ Len(calls) = 2
    /\ calls[1].op = "discover_peers" /\ calls[1].who = "c2"
    /\ pc["c2"] = "sleep"
    /\ calls[1].waited < calls[1].dur
    /\ calls[2].op = "stop" /\ calls[2].who = "c1" /\ calls[2].ret = "ok"
    /\ Len(seen) = 2 /\ Resolved(seen[1]) /\ seen[2] = Cleared
    /\ published[Len(published)] = ServiceStopped

\* --------------------------------------------------------------------- C18
\* a caller takes a step of stop() in this step
StopStep ==
    \/ Invoked("stop")
    \/ \E c \in Callers : /\ pc[c] \in {"unregister", "clear", "stop_send"}
                          /\ pc'[c] # pc[c]

\* C18 (state): a task that browses and has nothing left to send can receive
\* any ServiceEvent, whether is_running is set or clear.
C18_LoopGoesOn ==
    \A i \in DOMAIN tasks :
        (tasks[i].st = "browsing" /\ tasks[i].pend = NoEvent
            /\ discovered_peers_readers = {})
          => \A e \in ServiceEvents : ENABLED task_recv(i, e)

\* C18 (step): no step of stop() changes a task; a Resolved event with an IPv4
\* address received while is_running is clear is inserted in the map and its
\* PeerDiscovered left to send, as when it is set.
C18_Step ==
    /\ StopStep => tasks' = tasks
    /\ (Received /\ Resolved(seen'[Len(seen')]) /\ ~is_running)
          => LET info == seen'[Len(seen')].info
             IN  /\ BuiltFrom(discovered_peers'[info.fullname], info)
                 /\ \E i \in DOMAIN tasks :
                       tasks' = [tasks EXCEPT ![i].pend =
                                    PeerDiscovered(discovered_peers'[info.fullname])]

\* C18: stop() does not cancel the browse task: after stop() has returned the
\* task spawned by the earlier start() keeps receiving ServiceEvents, so a
\* Resolved event that arrives then is inserted in the map and published as
\* PeerDiscovered.
C18_StopKeepsLoop == [](C18_LoopGoesOn) /\ [][C18_Step]_vars

\* after stop() returned, alice was resolved: she is in the map of the stopped
\* service and her PeerDiscovered follows ServiceStopped
C18_Witness ==
    /\ Stopped
    /\ ~is_running
    /\ Len(seen) = 2 /\ seen[1] = Cleared /\ Resolved(seen[2])
    /\ seen[2].info.fullname = "alice"
    /\ get_peer("alice") # NoPeer
    /\ Len(published) = 3
    /\ published[2] = ServiceStopped
    /\ published[3] = PeerDiscovered(get_peer("alice"))

\* --------------------------------------------------------------------- C19
Ended(i) == tasks[i].st \in {"closed", "failed"}

\* C19 (state): a task that has ended has nothing to send and can neither
\* receive nor send; a task with an Error to send is still browsing.
C19_Ended ==
    \A i \in DOMAIN tasks :
        /\ Ended(i) => /\ tasks[i].pend = NoEvent
                       /\ ~ENABLED task_send(i)
                       /\ \A e \in ServiceEvents : ~ENABLED task_recv(i, e)
        /\ tasks[i].pend.type = "Error" => tasks[i].st = "browsing"

\* C19 (step): receiving an event that cannot be translated and sending its
\* Error leave the task browsing; a browsing task ends only in a step of its
\* own that receives, sends and changes nothing (the receiver reports the
\* closed stream), with nothing left to send; an ended task never changes, and
\* once every task has ended the map changes only by a clear and only
\* ServiceStarted and ServiceStopped are published.
C19_Step ==
    /\ \A i \in DOMAIN tasks :
          /\ (tasks[i].st = "browsing" /\ tasks'[i].st # "browsing")
                => /\ tasks'[i].st = "closed"
                   /\ tasks[i].pend = NoEvent
                   /\ UNCHANGED << is_running, discovered_peers, registered, pc,
                                   chan, rx, calls, regLog, seen, published >>
          /\ Ended(i) => tasks'[i] = tasks[i]
    /\ (Received /\ Unresolvable(seen'[Len(seen')]))
          => \A i \in DOMAIN tasks : tasks'[i].st = tasks[i].st
    /\ (tasks # << >> /\ \A i \in DOMAIN tasks : Ended(i))
          => /\ ~Received
             /\ discovered_peers' # discovered_peers
                   => discovered_peers' = [n \in Names |-> NoPeer]
             /\ Len(published') > Len(published)
                   => published'[Len(published')] \in {ServiceStarted, ServiceStopped}

\* C19: the browse task goes on after an event it could not translate (having
\* published the Error it handles the next event as usual) and ends only when
\* its receiver reports the closed stream; after that it publishes nothing and
\* changes the map no more.
C19_LoopTermination == [](C19_Ended) /\ [][C19_Step]_vars

\* the task received a Resolved event without IPv4 address and published the
\* Error, then resolved alice and published PeerDiscovered, then its stream closed
C19_Witness ==
    /\ Len(tasks) = 1
    /\ tasks[1].st = "closed"
    /\ Len(seen) = 2
    /\ Unresolvable(seen[1])
    /\ Resolved(seen[2])
    /\ Len(published) = 3
    /\ published[2].type = "Error"
    /\ published[3].type = "PeerDiscovered"
    /\ get_peers # {}

\* --------------------------------------------------------------------- C20
\* C20 (state): while a caller is inside get_peers() the records it has cloned
\* are those the map holds now for the names it has visited.
C20_Reading ==
    \A c \in Callers :
        pc[c] = "get_peers"
          => LET call == calls[current(c)]
             IN  call.peers = {discovered_peers[n] : n \in Names \ call.todo} \ {NoPeer}

\* C20 (step): no step changes the map while a caller is inside get_peers();
\* the Vec a get_peers() returns is the map as it is at the return, whole; a
\* call that has returned keeps the records it returned whatever happens to the
\* map afterwards.
C20_Step ==
    /\ (\E c \in Callers : pc[c] = "get_peers")
          => discovered_peers' = discovered_peers
    /\ \A i \in DOMAIN calls :
          /\ (calls[i].op = "get_peers" /\ calls[i].ret = "none"
                /\ calls'[i].ret # "none")
                => /\ calls'[i].ret = "ok"
                   /\ calls'[i].peers = get_peers
          /\ calls[i].ret = "ok" => calls'[i] = calls[i]

\* C20: get_peers() returns a consistent snapshot: the records returned are the
\* contents of the map at one instant between call and return, also while a
\* task or stop() is about to write, and later changes of the map do not alter
\* a snapshot already returned.
C20_ConsistentSnapshot == [](C20_Reading) /\ [][C20_Step]_vars

\* get_peers() returned the empty map of the started service; alice was
\* inserted afterwards and the returned snapshot is still empty
C20_Witness ==
    /\ Len(calls) = 2
    /\ calls[1].op = "start" /\ calls[1].ret = "ok"
    /\ calls[2].op = "get_peers" /\ calls[2].ret = "ok"
    /\ calls[2].peers = {}
    /\ Len(seen) = 1 /\ Resolved(seen[1])
    /\ get_peers # {}

\* --------------------------------------------------------------------- C21
\* C21: once the calls have returned, a task whose daemon.browse failed is
\* matched by a start() that returned an error or by a published Error event:
\* start() has not returned Ok with ServiceStarted published while no task
\* browses and nothing reports the failure.
C21_BrowseFailureReported ==
    (/\ Quiescent
     /\ \E i \in DOMAIN tasks : tasks[i].st = "failed"
     /\ ~LoopActive)
        => \/ \E i \in DOMAIN calls : calls[i].op = "start" /\ calls[i].ret = "err"
           \/ \E i \in DOMAIN published : published[i].type = "Error"
           \/ \E i \in DOMAIN tasks : tasks[i].pend.type = "Error"

\* --------------------------------------------------------------------- C22
\* the ServiceStarted and ServiceStopped events in the order of their publication
LifecycleEvents ==
    SelectSeq(published, LAMBDA e : e \in {ServiceStarted, ServiceStopped})

\* C22: the ServiceStarted and ServiceStopped events published alternate,
\* beginning with ServiceStarted, whatever start() and stop() calls are made and
\* whether they fail or not.
C22_Alternate ==
    \A i \in DOMAIN LifecycleEvents :
        LifecycleEvents[i] = IF i % 2 = 1 THEN ServiceStarted ELSE ServiceStopped

\* --------------------------------------------------------------------- C23
\* the stop() calls that have cleared the map and not yet published
AtStopSend == {c \in Callers : pc[c] = "stop_send"}

\* an event is published in this step
Publishes(types) ==
    /\ Len(published') = Len(published) + 1
    /\ published'[Len(published')].type \in types

\* C23 (state): a PeerDiscovered(p) about to be sent is that of a Resolved
\* record already received and written, a PeerLost(p) that of a Removed event
\* already applied to a map that held the name, and each ServiceStopped sent or
\* about to be sent has its clear of the map behind it; while an event waits to
\* be sent no write guard of the map is held: a caller can enter get_peers()
\* and a stop() whose turn it is can clear the map.
C23_WrittenBefore ==
    /\ \A i \in DOMAIN tasks :
        /\ tasks[i].pend.type = "PeerDiscovered"
              => \E k \in DOMAIN seen : /\ Resolved(seen[k])
                                        /\ BuiltFrom(tasks[i].pend.peer, seen[k].info)
        /\ tasks[i].pend.type = "PeerLost"
              => RemovedKnown(tasks[i].pend.peer.name) # {}
    /\ Cardinality({k \in DOMAIN seen : seen[k] = Cleared})
          = NumPublished("ServiceStopped") + Cardinality(AtStopSend)
    /\ (AtStopSend # {} \/ \E i \in DOMAIN tasks : tasks[i].pend # NoEvent)
          => \A c \in Callers :
                /\ pc[c] = "idle" => ENABLED get_peers_enter(c)
                /\ (pc[c] = "clear" /\ discovered_peers_readers = {})
                      => ENABLED clear(c)

\* C23 (step): the step that publishes PeerDiscovered, PeerLost or
\* ServiceStopped leaves the map as it is, the write being an earlier step; a
\* ServiceStopped is published by a stop() that has cleared the map; a step that
\* writes the map publishes nothing.
C23_Step ==
    /\ Publishes({"PeerDiscovered", "PeerLost", "ServiceStopped"})
          => discovered_peers' = discovered_peers /\ seen' = seen
    /\ Publishes({"ServiceStopped"})
          => \E c \in AtStopSend : pc'[c] = "idle"
    /\ (discovered_peers' # discovered_peers \/ seen' # seen)
          => published' = published

\* C23: the Registry is mutated before the event of the mutation is published
\* (PeerDiscovered after the insert, PeerLost after the removal, ServiceStopped
\* after the clear), and the write lock of the Registry is not held while
\* publishing.
C23_MutationPrecedes == [](C23_WrittenBefore) /\ [][C23_Step]_vars

\* alice was resolved and removed, then stop() cleared the map: PeerDiscovered,
\* PeerLost and ServiceStopped were each published after their write
C23_Witness ==
    /\ Len(seen) = 3
    /\ Resolved(seen[1]) /\ seen[2].kind = "ServiceRemoved" /\ seen[3] = Cleared
    /\ Len(published) = 4
    /\ published[2].type = "PeerDiscovered"
    /\ published[3].type = "PeerLost"
    /\ published[4] = ServiceStopped
    /\ \A c \in Callers : pc[c] = "idle"

\* --------------------------------------------------------------------- C24
\* positions in seen at which a name leaves the map
Departures(name) ==
    { i \in DOMAIN seen : /\ Fold(SubSeq(seen, 1, i - 1))[name] # Absent
                          /\ Fold(SubSeq(seen, 1, i))[name] = Absent }

\* those of them made by the clear of a stop()
ClearedKnown(name) == { i \in Departures(name) : seen[i] = Cleared }

\* the PeerLost events of a name sent or about to be sent
NumLost(name) ==
    Cardinality({i \in DOMAIN published : /\ published[i].type = "PeerLost"
                                          /\ published[i].peer.name = name})
    + Cardinality({i \in DOMAIN tasks : /\ tasks[i].pend.type = "PeerLost"
                                        /\ tasks[i].pend.peer.name = name})

\* C24 (state): the ServiceStopped events published are as many as the clears
\* made by stop() calls that have gone past their send, and per name the
\* PeerLost events are as many as the departures of the name from the map less
\* those made by a clear: a cleared peer gets none.
C24_NoLostForCleared ==
    /\ NumPublished("ServiceStopped") + Cardinality(AtStopSend)
          = Cardinality({k \in DOMAIN seen : seen[k] = Cleared})
    /\ \A n \in Names :
          NumLost(n) = Cardinality(Departures(n)) - Cardinality(ClearedKnown(n))

\* C24 (step): a step of stop() publishes nothing, or ServiceStopped alone as
\* its last step, and hands no task an event to send; a task that receives a
\* Removed event of a name the map does not hold publishes nothing and has
\* nothing to send for it.
C24_Step ==
    /\ StopStep
          => /\ \/ published' = published
                \/ /\ published' = Append(published, ServiceStopped)
                   /\ \E c \in AtStopSend : pc'[c] = "idle"
             /\ tasks' = tasks
    /\ (/\ Received
        /\ seen'[Len(seen')].kind = "ServiceRemoved"
        /\ discovered_peers[seen'[Len(seen')].info.fullname] = NoPeer)
          => /\ published' = published
             /\ \A i \in DOMAIN tasks : tasks'[i].pend = tasks[i].pend

\* C24: stop() publishes exactly one event, ServiceStopped, and no PeerLost for
\* the peers its clear removes; a Removed event received after stop() for a
\* cleared peer publishes no PeerLost, so a peer announced by PeerDiscovered
\* can leave the map with no PeerLost ever published for it.
C24_StopPublishesOne == [](C24_NoLostForCleared) /\ [][C24_Step]_vars

\* alice was announced, stop() cleared her and returned, then her Removed event
\* was received: ServiceStopped is the one event published since PeerDiscovered
C24_Witness ==
    /\ Len(seen) = 3
    /\ Resolved(seen[1]) /\ seen[2] = Cleared
    /\ seen[3].kind = "ServiceRemoved"
    /\ seen[3].info.fullname = seen[1].info.fullname
    /\ Len(published) = 3
    /\ published[2].type = "PeerDiscovered"
    /\ published[3] = ServiceStopped
    /\ get_peers = {}
    /\ \A i \in DOMAIN tasks : tasks[i].pend = NoEvent
    /\ \A c \in Callers : pc[c] = "idle"

\* --------------------------------------------------------------------- C25
\* the spawned tasks that are inside the loop of line 216
BrowseLoops == {i \in DOMAIN tasks : tasks[i].st = "browsing"}

\* C25: at most one Browse Loop task of the service is live at any time, across
\* any sequence of start(), stop() and start() again.
C25_OneBrowseLoop == Cardinality(BrowseLoops) <= 1

\* --------------------------------------------------------------------- C26
\* the services started by the engine that hold a registration
EngineRegistered ==
    Cardinality({i \in DOMAIN engine.dropped :
                    engine.dropped[i].started /\ engine.dropped[i].registered})
    + (IF engine.discovery # None /\ engine.pc # "start" /\ registered THEN 1 ELSE 0)
    + (IF engine.discovery # None /\ engine.pc = "start" /\ engine.held.registered
       THEN 1 ELSE 0)

\* stop() was called on every started service the engine has let go of
C26_Stopped ==
    \A i \in DOMAIN engine.dropped :
        engine.dropped[i].started => engine.dropped[i].stopped

\* a start_discovery that failed left the handle as it was
C26_FailureKeepsHandle ==
    \A i \in DOMAIN engine.log :
        (engine.log[i].method = "start_discovery" /\ engine.log[i].ret = "err")
            => engine.log[i].after = engine.log[i].before

\* C26: for any sequence of start_discovery and stop_discovery calls, every
\* discovery service the engine started has had stop() called on it before the
\* engine's handle to it is replaced or cleared, so at most one engine-started
\* service is registered at a time; a start_discovery that fails leaves the
\* engine's handle unchanged.
C26_HandleStopped ==
    /\ C26_Stopped
    /\ engine.pc = "idle" => EngineRegistered <= 1
    /\ C26_FailureKeepsHandle

====
